---------------------------- MODULE Spec2Model ----------------------------
(***************************************************************************)
(* Milestone escrow engine (SolEscrow): the FeeConfig singleton, one       *)
(* escrow agreement with its milestones, dispute and receipt certificate,  *)
(* the vault and the token balances of the parties, and the ledger clock.  *)
(* Every instruction is one atomic step: a rejected call changes nothing.  *)
(***************************************************************************)
EXTENDS Integers, Sequences, FiniteSets, TLC

(* ---------------- program constants ---------------- *)
BPS_DENOMINATOR == 10000
MAX_MILESTONES == 5
MIN_EXPIRATION_DURATION == 3600

(* ---------------- bounds of the model ---------------- *)
MaxTicks == 3
TickLen == 1800
MakerFunds == 160

(* ---------------- input domains ---------------- *)
Users == {"maker", "taker", "stranger", "authority"}
NullId == "null"
Collector == "collector"
Holders == Users \cup {Collector}
FeeRates == {0, 250, BPS_DENOMINATOR}
Timeouts == {TickLen, 2 * TickLen}
Durations == {MIN_EXPIRATION_DURATION - TickLen, MIN_EXPIRATION_DURATION}
SplitBps == {0, 5000, BPS_DENOMINATOR, BPS_DENOMINATOR + 1}
Unset == 0 - 1
NoChange == [authority |-> "unset", feeBps |-> Unset, timeout |-> Unset]
UpdateRequests ==
  {[NoChange EXCEPT !.authority = a] : a \in {NullId, "authority", "stranger"}}
    \cup {[NoChange EXCEPT !.feeBps = f] : f \in FeeRates \cup {BPS_DENOMINATOR + 1}}
    \cup {[NoChange EXCEPT !.timeout = t] : t \in Timeouts \cup {0}}
    \cup {[authority |-> "stranger", feeBps |-> 0, timeout |-> TickLen]}
FeeRequests == {[NoChange EXCEPT !.feeBps = f] : f \in FeeRates \cup {BPS_DENOMINATOR + 1}}
Resolutions ==
  {[kind |-> "MakerWins", makerBps |-> 0], [kind |-> "TakerWins", makerBps |-> 0]}
    \cup {[kind |-> "Split", makerBps |-> b] : b \in SplitBps}

VARIABLES config, escrow, closed, vault, bal, nft, now, last

vars == <<config, escrow, closed, vault, bal, nft, now, last>>

(* The optional records are sequences of length 0 (absent) or 1. *)
Cfg == config[1]
E == escrow[1]
HasConfig == config # <<>>
HasEscrow == escrow # <<>>

Terminal == {"Completed", "Cancelled", "Expired"}

RECURSIVE SumAmounts(_)
SumAmounts(ms) ==
  IF ms = <<>> THEN 0 ELSE ms[1].amount + SumAmounts(Tail(ms))

SelectMs(ms, st) == SelectSeq(ms, LAMBDA m : m.status = st)

CountMs(ms, st) == Len(SelectMs(ms, st))

AllSettled(ms) ==
  \A i \in DOMAIN ms : ms[i].status \in {"Released", "Cancelled"}

MakeMilestonesApproved(amounts) ==
  [i \in DOMAIN amounts |-> [amount |-> amounts[i], status |-> "Approved"]]

MakeMilestones(amounts) ==
  [i \in DOMAIN amounts |-> [amount |-> amounts[i], status |-> "Pending"]]

AmountLists == {<<45>>, <<30, 45>>, <<45, 30, 30>>}
BadLists == {<<>>, [i \in 1..(MAX_MILESTONES + 1) |-> 20]}
MsIndexes == 1..(MAX_MILESTONES + 1)

RECURSIVE SumSeq(_)
SumSeq(s) == IF s = <<>> THEN 0 ELSE s[1] + SumSeq(Tail(s))


(* fee = amount * fee_bps / 10000, truncating *)
CalcFee(amount, bps) == (amount * bps) \div BPS_DENOMINATOR

PayNobody(b, who, amt) == b

Pay(b, who, amt) == [b EXCEPT ![who] = @ + amt]

(* The rate of every settlement of an agreement is the snapshot taken at creation. *)
CurrentFeeBps == Cfg.feeBps

SettlementFeeBps == E.feeBpsAtCreation

(* The owner of the beneficiary token account a settlement pays. *)
TakerAccount == E.taker

BeneficiaryAccount == E.beneficiary

(* ---------------- FeeConfig ---------------- *)
InitializeConfigErrs(feeBps) ==
  (IF HasConfig THEN {"AlreadyInitialized"} ELSE {})
    \cup (IF feeBps > BPS_DENOMINATOR THEN {"InvalidFeeRate"} ELSE {})

InitializeConfig(caller, feeBps, timeout, collector) ==
  /\ InitializeConfigErrs(feeBps) = {}
  /\ config' = <<[authority |-> caller, feeBps |-> feeBps,
                  feeCollector |-> collector, disputeTimeout |-> timeout]>>
  /\ last' = "initializeConfig"
  /\ UNCHANGED <<escrow, closed, vault, bal, nft, now>>

InitialAuthority == "authority"

(* update_config is signed by the authority the FeeConfig names now. *)
ConfigAuthority == Cfg.authority

UpdateConfigErrs(caller, newAuthority, newFeeBps, newTimeout) ==
  (IF ~HasConfig THEN {"AccountNotInitialized"} ELSE {})
    \cup (IF HasConfig /\ caller # ConfigAuthority THEN {"Unauthorized"} ELSE {})
    \cup (IF newFeeBps # Unset /\ newFeeBps > BPS_DENOMINATOR
          THEN {"InvalidFeeRate"} ELSE {})
    \cup (IF newTimeout # Unset /\ newTimeout <= 0
          THEN {"InvalidDisputeTimeout"} ELSE {})
    \cup (IF newAuthority = NullId THEN {"InvalidAuthority"} ELSE {})

UpdateConfigUnchecked(caller, newAuthority, newFeeBps, newTimeout) ==
  /\ HasConfig
  /\ config' = <<[Cfg EXCEPT !.feeBps = IF newFeeBps = Unset THEN @ ELSE newFeeBps]>>
  /\ last' = "updateConfig"
  /\ UNCHANGED <<escrow, closed, vault, bal, nft, now>>

UpdateConfig(caller, newAuthority, newFeeBps, newTimeout) ==
  /\ UpdateConfigErrs(caller, newAuthority, newFeeBps, newTimeout) = {}
  /\ config' = <<[authority |-> IF newAuthority = "unset" THEN Cfg.authority
                                ELSE newAuthority,
                  feeBps |-> IF newFeeBps = Unset THEN Cfg.feeBps ELSE newFeeBps,
                  feeCollector |-> Cfg.feeCollector,
                  disputeTimeout |-> IF newTimeout = Unset THEN Cfg.disputeTimeout
                                     ELSE newTimeout]>>
  /\ last' = "updateConfig"
  /\ UNCHANGED <<escrow, closed, vault, bal, nft, now>>

(* ---------------- create ---------------- *)
MilestoneCountNotZero(n) == n >= 1

MilestoneCountOk(n) == n >= 1 /\ n <= MAX_MILESTONES

CreateEscrowErrs(payer, payee, total, amounts, expiresAt) ==
  (IF ~HasConfig THEN {"AccountNotInitialized"} ELSE {})
    \cup (IF HasEscrow \/ closed THEN {"AccountInUse"} ELSE {})
    \cup (IF ~MilestoneCountOk(Len(amounts))
          THEN {"InvalidMilestoneCount"} ELSE {})
    \cup (IF total = 0 THEN {"InvalidAmount"} ELSE {})
    \cup (IF SumSeq(amounts) # total THEN {"MilestoneAmountMismatch"} ELSE {})
    \cup (IF payer = payee THEN {"SelfEscrow"} ELSE {})
    \cup (IF expiresAt < now + MIN_EXPIRATION_DURATION
          THEN {"InvalidExpiration"} ELSE {})
    \cup (IF bal[payer] < total THEN {"InsufficientFunds"} ELSE {})

CreateEscrow(payer, payee, total, amounts, expiresAt) ==
  /\ CreateEscrowErrs(payer, payee, total, amounts, expiresAt) = {}
  /\ escrow' = <<[maker |-> payer, taker |-> payee, beneficiary |-> payee,
                  amount |-> total, releasedAmount |-> 0, refundedAmount |-> 0,
                  status |-> "Active", milestones |-> MakeMilestones(amounts),
                  createdAt |-> now, expiresAt |-> expiresAt, dispute |-> <<>>,
                  feeBpsAtCreation |-> Cfg.feeBps, receiptMint |-> FALSE]>>
  /\ bal' = [bal EXCEPT ![payer] = @ - total]
  /\ vault' = vault + total
  /\ last' = "createEscrow"
  /\ UNCHANGED <<config, closed, nft, now>>

(* ---------------- approve ---------------- *)
ApprovableUnlessFinal(m) == m.status \in {"Pending", "Approved"}

Approvable(m) == m.status = "Pending"

ApproveMilestoneErrs(caller, i) ==
  IF ~HasEscrow THEN {"AccountNotInitialized"}
  ELSE (IF caller # E.maker THEN {"Unauthorized"} ELSE {})
    \cup (IF E.status # "Active" THEN {"EscrowNotActive"} ELSE {})
    \cup (IF now > E.expiresAt THEN {"EscrowExpired"} ELSE {})
    \cup (IF i \notin DOMAIN E.milestones THEN {"InvalidMilestoneIndex"}
          ELSE IF ~Approvable(E.milestones[i]) THEN {"MilestoneNotPending"}
          ELSE {})

ApproveMilestone(caller, i) ==
  /\ ApproveMilestoneErrs(caller, i) = {}
  /\ escrow' = <<[E EXCEPT !.milestones[i].status = "Approved"]>>
  /\ last' = "approveMilestone"
  /\ UNCHANGED <<config, closed, vault, bal, nft, now>>

(* ---------------- receipt certificate (external registry) ---------------- *)
(* The receipt is held by one identity while its supply is 1. *)
ReceiptIssued == E.receiptMint => nft # <<>>

ReceiptSynced ==
  E.receiptMint => (nft # <<>> /\ nft[1].supply = 1 /\ nft[1].holder = E.beneficiary)

SyncErrs == IF ReceiptSynced THEN {} ELSE {"BeneficiaryNotSynced"}

(* ---------------- release ---------------- *)
CompletedWhenAllReleased(ms, released) ==
  IF CountMs(ms, "Released") = Len(ms) /\ released > 0 THEN "Completed" ELSE "Active"

CompletedAfterRelease(ms, released) ==
  IF AllSettled(ms) /\ released > 0 THEN "Completed" ELSE "Active"

ReleaseMilestoneErrs(i) ==
  IF ~HasEscrow THEN {"AccountNotInitialized"}
  ELSE (IF E.status # "Active" THEN {"EscrowNotActive"} ELSE {})
    \cup (IF now > E.expiresAt THEN {"EscrowExpired"} ELSE {})
    \cup (IF i \notin DOMAIN E.milestones THEN {"InvalidMilestoneIndex"}
          ELSE IF E.milestones[i].status # "Approved" THEN {"MilestoneNotApproved"}
          ELSE IF vault < E.milestones[i].amount THEN {"InsufficientFunds"}
          ELSE {})
    \cup SyncErrs

ReleaseMilestone(caller, i) ==
  /\ ReleaseMilestoneErrs(i) = {}
  /\ LET amt == E.milestones[i].amount
         fee == CalcFee(amt, SettlementFeeBps)
         net == amt - fee
         ms == [E.milestones EXCEPT ![i].status = "Released"]
         rel == E.releasedAmount + amt
     IN /\ vault' = vault - amt
        /\ bal' = Pay(Pay(bal, Cfg.feeCollector, fee), BeneficiaryAccount, net)
        /\ escrow' = <<[E EXCEPT !.milestones = ms, !.releasedAmount = rel,
                                 !.status = CompletedAfterRelease(ms, rel)]>>
  /\ last' = "releaseMilestone"
  /\ UNCHANGED <<config, closed, nft, now>>

(* ---------------- cancel ---------------- *)
StatusAfterCancelUnlessReleased(ms) ==
  IF CountMs(ms, "Approved") = 0 /\ CountMs(ms, "Released") = 0
  THEN "Cancelled" ELSE "Active"

StatusAfterCancelAlways(ms) == "Cancelled"

StatusAfterCancel(ms) ==
  IF CountMs(ms, "Approved") = 0 THEN "Cancelled" ELSE "Active"

CancelEveryMilestone(ms) ==
  [i \in DOMAIN ms |-> [ms[i] EXCEPT !.status = "Cancelled"]]

CancelMilestones(ms) ==
  [i \in DOMAIN ms |->
     IF ms[i].status = "Pending" THEN [ms[i] EXCEPT !.status = "Cancelled"]
     ELSE ms[i]]

RefundableWithApproved(ms) ==
  SumAmounts(SelectMs(ms, "Pending")) + SumAmounts(SelectMs(ms, "Approved"))

RefundableAmount(ms) == SumAmounts(SelectMs(ms, "Pending"))

CancelEscrowErrs(caller) ==
  IF ~HasEscrow THEN {"AccountNotInitialized"}
  ELSE (IF caller # E.maker THEN {"Unauthorized"} ELSE {})
    \cup (IF E.status # "Active" THEN {"EscrowNotActive"} ELSE {})
    \cup (IF CountMs(E.milestones, "Pending") = 0 THEN {"NoRefundableAmount"}
          ELSE IF vault < RefundableAmount(E.milestones) THEN {"InsufficientFunds"}
          ELSE {})

CancelEscrow(caller) ==
  /\ CancelEscrowErrs(caller) = {}
  /\ LET refund == RefundableAmount(E.milestones)
         ms == CancelMilestones(E.milestones)
     IN /\ vault' = vault - refund
        /\ bal' = Pay(bal, E.maker, refund)
        /\ escrow' = <<[E EXCEPT !.milestones = ms,
                                 !.refundedAmount = @ + refund,
                                 !.status = StatusAfterCancel(ms)]>>
  /\ last' = "cancelEscrow"
  /\ UNCHANGED <<config, closed, nft, now>>

(* ---------------- dispute ---------------- *)
DisputableUnlessTerminal == {"Active", "Disputed"}

(* The statuses in which a dispute can be opened. *)
DisputableStatus == {"Active"}

DisputePartiesAtCreation == {E.maker, E.taker}

(* The identities that may open a dispute. *)
DisputeParties == {E.maker, E.beneficiary}

InitiateDisputeErrs(caller) ==
  IF ~HasEscrow THEN {"AccountNotInitialized"}
  ELSE (IF caller \notin DisputeParties THEN {"NotEscrowParty"} ELSE {})
    \cup (IF E.status \notin DisputableStatus THEN {"EscrowNotActive"} ELSE {})

InitiateDispute(caller) ==
  /\ InitiateDisputeErrs(caller) = {}
  /\ escrow' = <<[E EXCEPT !.status = "Disputed",
                           !.dispute = <<[initiator |-> caller, initiatedAt |-> now,
                                          timeout |-> Cfg.disputeTimeout,
                                          resolution |-> "None"]>>]>>
  /\ last' = "initiateDispute"
  /\ UNCHANGED <<config, closed, vault, bal, nft, now>>

DisputeDeadlineFromConfig == E.dispute[1].initiatedAt + Cfg.disputeTimeout

DisputeDeadline == E.dispute[1].initiatedAt + E.dispute[1].timeout

(* the remaining (unreleased) amount *)
Remaining == E.amount - E.releasedAmount

MakerShareRoundedUp(res, r) ==
  CASE res.kind = "MakerWins" -> r
    [] res.kind = "TakerWins" -> 0
    [] OTHER -> (r * res.makerBps + BPS_DENOMINATOR - 1) \div BPS_DENOMINATOR

MakerShare(res, r) ==
  CASE res.kind = "MakerWins" -> r
    [] res.kind = "TakerWins" -> 0
    [] OTHER -> (r * res.makerBps) \div BPS_DENOMINATOR

ReopenAfterResolve(res) ==
  IF res.kind = "MakerWins" THEN "Cancelled" ELSE "Active"

StatusAfterResolve(res) ==
  IF res.kind = "MakerWins" THEN "Cancelled" ELSE "Completed"

(* Open milestones are closed consistently with the payout. *)
SettleMilestones(ms, approvedTo, pendingTo) ==
  [i \in DOMAIN ms |->
     IF ms[i].status = "Approved" THEN [ms[i] EXCEPT !.status = approvedTo]
     ELSE IF ms[i].status = "Pending" THEN [ms[i] EXCEPT !.status = pendingTo]
     ELSE ms[i]]

ResolveDisputeErrs(caller, res) ==
  IF ~HasEscrow \/ ~HasConfig THEN {"AccountNotInitialized"}
  ELSE (IF caller # Cfg.authority THEN {"Unauthorized"} ELSE {})
    \cup (IF E.status # "Disputed" THEN {"DisputeNotActive"}
          ELSE IF now >= DisputeDeadline THEN {"EscrowExpired"} ELSE {})
    \cup (IF res.kind = "Split" /\ res.makerBps > BPS_DENOMINATOR
          THEN {"InvalidDisputeResolution"} ELSE {})
    \cup (IF vault < Remaining THEN {"InsufficientFunds"} ELSE {})
    \cup SyncErrs

ResolveDispute(caller, res) ==
  /\ ResolveDisputeErrs(caller, res) = {}
  /\ LET r == Remaining
         makerShare == MakerShare(res, r)
         takerTotal == r - makerShare
         fee == CalcFee(takerTotal, SettlementFeeBps)
         net == takerTotal - fee
         closeAs == IF res.kind = "MakerWins" THEN "Cancelled" ELSE "Released"
     IN /\ vault' = vault - r
        /\ bal' = Pay(Pay(Pay(bal, E.maker, makerShare), Cfg.feeCollector, fee),
                      BeneficiaryAccount, net)
        /\ escrow' = <<[E EXCEPT !.releasedAmount = @ + takerTotal,
                                 !.refundedAmount = @ + makerShare,
                                 !.milestones = SettleMilestones(@, closeAs, closeAs),
                                 !.dispute[1].resolution = res.kind,
                                 !.status = StatusAfterResolve(res)]>>
  /\ last' = "resolveDispute"
  /\ UNCHANGED <<config, closed, nft, now>>

(* ---------------- expiry ---------------- *)
EffectiveDeadline ==
  IF E.status = "Disputed" THEN DisputeDeadline ELSE E.expiresAt

(* amounts paid by claim_expired: <<maker refund, beneficiary gross>> *)
ExpiredPayoutKeepsPending ==
  IF E.status = "Disputed"
  THEN <<Remaining \div 2, Remaining - (Remaining \div 2)>>
  ELSE <<0, SumAmounts(SelectMs(E.milestones, "Approved"))>>

ExpiredPayoutMakerRoundedUp ==
  IF E.status = "Disputed"
  THEN <<Remaining - (Remaining \div 2), Remaining \div 2>>
  ELSE <<SumAmounts(SelectMs(E.milestones, "Pending")),
         SumAmounts(SelectMs(E.milestones, "Approved"))>>

ExpiredPayoutRefundsAll ==
  IF E.status = "Disputed"
  THEN <<Remaining \div 2, Remaining - (Remaining \div 2)>>
  ELSE <<SumAmounts(SelectMs(E.milestones, "Pending"))
           + SumAmounts(SelectMs(E.milestones, "Approved")), 0>>

ExpiredPayout ==
  IF E.status = "Disputed"
  THEN LET r == Remaining
           makerShare == r \div 2
       IN <<makerShare, r - makerShare>>
  ELSE <<SumAmounts(SelectMs(E.milestones, "Pending")),
         SumAmounts(SelectMs(E.milestones, "Approved"))>>

ClaimExpiredErrs ==
  IF ~HasEscrow THEN {"AccountNotInitialized"}
  ELSE (IF E.status \notin {"Active", "Disputed"} THEN {"EscrowNotActive"}
        ELSE IF now < EffectiveDeadline THEN {"EscrowNotExpired"}
        ELSE IF vault < ExpiredPayout[1] + ExpiredPayout[2] THEN {"InsufficientFunds"}
        ELSE {})
    \cup SyncErrs

ClaimExpired(caller) ==
  /\ ClaimExpiredErrs = {}
  /\ LET refund == ExpiredPayout[1]
         gross == ExpiredPayout[2]
         fee == CalcFee(gross, SettlementFeeBps)
         net == gross - fee
     IN /\ vault' = vault - (refund + gross)
        /\ bal' = Pay(Pay(Pay(bal, E.maker, refund), Cfg.feeCollector, fee),
                      BeneficiaryAccount, net)
        /\ escrow' = <<[E EXCEPT !.releasedAmount = @ + gross,
                                 !.refundedAmount = @ + refund,
                                 !.milestones = SettleMilestones(@, "Released", "Cancelled"),
                                 !.status = "Expired"]>>
  /\ last' = "claimExpired"
  /\ UNCHANGED <<config, closed, nft, now>>

(* ---------------- close ---------------- *)
(* What the agreement's books still hold in the vault. *)
Accounted == E.amount - E.releasedAmount - E.refundedAmount

SweptAccounted == Accounted

(* close_escrow sweeps whatever the vault holds, deposits from outside included. *)
SweptAmount == vault

CloseEscrowErrs(caller) ==
  IF ~HasEscrow THEN {"AccountNotInitialized"}
  ELSE (IF caller # E.maker THEN {"Unauthorized"} ELSE {})
    \cup (IF E.status \notin Terminal THEN {"EscrowNotTerminal"} ELSE {})

CloseEscrow(caller) ==
  /\ CloseEscrowErrs(caller) = {}
  /\ bal' = Pay(bal, E.maker, SweptAmount)
  /\ vault' = vault - SweptAmount
  /\ escrow' = <<>>
  /\ closed' = TRUE
  /\ last' = "closeEscrow"
  /\ UNCHANGED <<config, nft, now>>

(* ---------------- claim transfer and receipt ---------------- *)
ReceiptHeld == E.receiptMint /\ nft # <<>> /\ nft[1].supply = 1

(* A recorded receipt blocks the direct transfer of the claim. *)
ReceiptExists == E.receiptMint

TransferClaimErrs(caller, newBeneficiary) ==
  IF ~HasEscrow THEN {"AccountNotInitialized"}
  ELSE (IF caller # E.beneficiary THEN {"NotBeneficiary"} ELSE {})
    \cup (IF E.status # "Active" THEN {"EscrowNotActive"} ELSE {})
    \cup (IF newBeneficiary = E.maker THEN {"InvalidBeneficiary"} ELSE {})
    \cup (IF ReceiptExists THEN {"ReceiptExists"} ELSE {})

TransferClaim(caller, newBeneficiary) ==
  /\ TransferClaimErrs(caller, newBeneficiary) = {}
  /\ escrow' = <<[E EXCEPT !.beneficiary = newBeneficiary]>>
  /\ last' = "transferClaim"
  /\ UNCHANGED <<config, closed, vault, bal, nft, now>>

MintReceiptErrs(caller) ==
  IF ~HasEscrow THEN {"AccountNotInitialized"}
  ELSE (IF caller # E.beneficiary THEN {"NotBeneficiary"} ELSE {})
    \cup (IF E.status # "Active" THEN {"EscrowNotActive"} ELSE {})
    \cup (IF E.receiptMint THEN {"ReceiptAlreadyMinted"} ELSE {})

MintReceipt(caller) ==
  /\ MintReceiptErrs(caller) = {}
  /\ escrow' = <<[E EXCEPT !.receiptMint = TRUE]>>
  /\ nft' = <<[holder |-> caller, supply |-> 1]>>
  /\ last' = "mintReceipt"
  /\ UNCHANGED <<config, closed, vault, bal, now>>

SyncableWhenActive == {"Active"}

(* The statuses in which the beneficiary can be synced to the holder. *)
SyncableStatus == {"Active", "Disputed"}

SyncBeneficiaryErrs ==
  IF ~HasEscrow THEN {"AccountNotInitialized"}
  ELSE (IF ~E.receiptMint \/ nft = <<>> THEN {"MintMismatch"}
        ELSE IF nft[1].supply = 0 THEN {"ReceiptNotHeld"}
        ELSE IF nft[1].holder = E.beneficiary THEN {"BeneficiaryAlreadySynced"}
        ELSE {})
    \cup (IF E.status \notin SyncableStatus THEN {"EscrowNotActive"} ELSE {})

SyncBeneficiary(caller) ==
  /\ SyncBeneficiaryErrs = {}
  /\ escrow' = <<[E EXCEPT !.beneficiary = nft[1].holder]>>
  /\ last' = "syncBeneficiary"
  /\ UNCHANGED <<config, closed, vault, bal, nft, now>>

ReceiptLeftBeneficiary == nft[1].supply = 0 \/ nft[1].holder # E.beneficiary

(* The receipt's total supply is zero. *)
ReceiptBurned == nft[1].supply = 0

RevokeReceiptErrs ==
  IF ~HasEscrow THEN {"AccountNotInitialized"}
  ELSE IF ~E.receiptMint \/ nft = <<>> THEN {"MintMismatch"}
  ELSE IF ~ReceiptBurned THEN {"ReceiptNotBurned"}
  ELSE {}

RevokeReceipt(caller) ==
  /\ RevokeReceiptErrs = {}
  /\ escrow' = <<[E EXCEPT !.receiptMint = FALSE]>>
  /\ last' = "revokeReceipt"
  /\ UNCHANGED <<config, closed, vault, bal, nft, now>>

(* The receipt changes hands, or is burned, outside the program. *)
ReceiptTransfer(to) ==
  /\ nft # <<>>
  /\ nft[1].supply = 1
  /\ nft[1].holder # to
  /\ nft' = <<[nft[1] EXCEPT !.holder = to]>>
  /\ UNCHANGED <<config, escrow, closed, vault, bal, now, last>>

ReceiptBurn ==
  /\ nft # <<>>
  /\ nft[1].supply = 1
  /\ nft' = <<[nft[1] EXCEPT !.supply = 0]>>
  /\ UNCHANGED <<config, escrow, closed, vault, bal, now, last>>

(* ---------------- the ledger clock ---------------- *)
AdvanceClock ==
  /\ now < MaxTicks * TickLen
  /\ now' = now + TickLen
  /\ UNCHANGED <<config, escrow, closed, vault, bal, nft, last>>

Init ==
  /\ config = <<>>
  /\ escrow = <<>>
  /\ closed = FALSE
  /\ vault = 0
  /\ bal = [h \in Holders |-> IF h = "maker" THEN MakerFunds ELSE 0]
  /\ nft = <<>>
  /\ now = 0
  /\ last = "none"

(* ---------------- steps, by group of instructions ---------------- *)
InitializeStep(fees, timeouts) ==
  \E f \in fees \cup {BPS_DENOMINATOR + 1}, t \in timeouts :
    InitializeConfig("authority", f, t, Collector)

UpdateStep(requests) ==
  \E c \in Users, u \in requests :
    UpdateConfig(c, u.authority, u.feeBps, u.timeout)

CreateStep(lists) ==
  \E q \in {"maker", "taker"}, am \in lists \cup BadLists, d \in Durations :
    \E tot \in {0, SumSeq(am), SumSeq(am) + 1} :
      CreateEscrow("maker", q, tot, am, now + d)

MilestoneStep ==
  \/ \E c \in Users, i \in MsIndexes : ApproveMilestone(c, i)
  \/ \E c \in Users, i \in MsIndexes : ReleaseMilestone(c, i)
  \/ \E c \in Users : CancelEscrow(c)

DisputeStep ==
  \/ \E c \in Users : InitiateDispute(c)
  \/ \E c \in Users, r \in Resolutions : ResolveDispute(c, r)

ExpiryStep ==
  \/ \E c \in Users : ClaimExpired(c)
  \/ \E c \in Users : CloseEscrow(c)

ClaimStep ==
  \E c \in Users, n \in {"maker", "taker", "stranger"} : TransferClaim(c, n)

ReceiptStep ==
  \/ \E c \in Users : MintReceipt(c)
  \/ \E c \in Users : SyncBeneficiary(c)
  \/ \E c \in Users : RevokeReceipt(c)
  \/ \E to \in {"maker", "taker", "stranger"} : ReceiptTransfer(to)
  \/ ReceiptBurn

(* The agreement's lifecycle under a FeeConfig that is initialized once *)
(* and then left alone.                                                 *)
Next ==
  \/ InitializeStep(FeeRates, {TickLen})
  \/ CreateStep(AmountLists)
  \/ MilestoneStep
  \/ DisputeStep
  \/ ExpiryStep
  \/ AdvanceClock

Spec == Init /\ [][Next]_vars

(* The lifecycle while the authority changes the fee rate. *)
NextFee ==
  \/ InitializeStep({250}, {TickLen})
  \/ UpdateStep(FeeRequests)
  \/ CreateStep({<<30, 45>>})
  \/ MilestoneStep
  \/ DisputeStep
  \/ ExpiryStep
  \/ AdvanceClock

SpecFee == Init /\ [][NextFee]_vars

(* The lifecycle while the claim is transferred directly. *)
NextClaim ==
  \/ InitializeStep({250}, {TickLen})
  \/ CreateStep({<<30, 45>>})
  \/ MilestoneStep
  \/ DisputeStep
  \/ ExpiryStep
  \/ ClaimStep
  \/ AdvanceClock

SpecClaim == Init /\ [][NextClaim]_vars

(* The lifecycle with a receipt certificate that changes hands. *)
NextReceipt ==
  \/ InitializeStep({250}, {TickLen})
  \/ CreateStep({<<30, 45>>})
  \/ MilestoneStep
  \/ DisputeStep
  \/ ExpiryStep
  \/ ClaimStep
  \/ ReceiptStep
  \/ AdvanceClock

SpecReceipt == Init /\ [][NextReceipt]_vars

(* ---------------- properties ---------------- *)
(* A step of the named instruction: only a successful instruction writes *)
(* its name to last, and the clock leaves the agreement alone.           *)
StepOf(name) == HasEscrow /\ HasEscrow' /\ escrow' # escrow /\ last' = name

Finalized(m) == m.status \in {"Released", "Cancelled"}

(* C1: while the agreement exists, releasedAmount + refundedAmount never *)
(* exceeds totalAmount, and in a terminal status (Completed, Cancelled,  *)
(* Expired) the two add up to totalAmount exactly.                       *)
C1_Conservation ==
  HasEscrow =>
    /\ E.releasedAmount + E.refundedAmount <= E.amount
    /\ E.status \in Terminal => E.releasedAmount + E.refundedAmount = E.amount

C1_Witness ==
  /\ HasEscrow
  /\ E.status = "Expired"
  /\ E.releasedAmount > 0
  /\ E.refundedAmount > 0
  /\ E.releasedAmount + E.refundedAmount = E.amount

(* C2: a milestone that is Released or Cancelled stays as it is in every *)
(* later step; on it approveMilestone reports MilestoneNotPending and    *)
(* releaseMilestone reports MilestoneNotApproved for every caller; and a *)
(* release or cancel step debits the vault by exactly the amounts of the *)
(* milestones it finalizes, so no milestone's amount leaves twice.       *)
C2_FinalizedRejected ==
  HasEscrow =>
    \A i \in DOMAIN E.milestones :
      Finalized(E.milestones[i]) =>
        /\ "MilestoneNotApproved" \in ReleaseMilestoneErrs(i)
        /\ \A c \in Users : "MilestoneNotPending" \in ApproveMilestoneErrs(c, i)

C2_FinalizedFrozen ==
  HasEscrow /\ HasEscrow' =>
    /\ DOMAIN E'.milestones = DOMAIN E.milestones
    /\ \A i \in DOMAIN E.milestones :
         Finalized(E.milestones[i]) => E'.milestones[i] = E.milestones[i]

C2_DebitedOnce ==
  StepOf("releaseMilestone") \/ StepOf("cancelEscrow") =>
    vault - vault' =
      SumAmounts(SelectSeq(E.milestones, LAMBDA m : ~Finalized(m)))
        - SumAmounts(SelectSeq(E'.milestones, LAMBDA m : ~Finalized(m)))

C2_NoDoubleSettlement ==
  [](C2_FinalizedRejected) /\ [][C2_FinalizedFrozen /\ C2_DebitedOnce]_vars

C2_Witness ==
  /\ HasEscrow
  /\ last = "cancelEscrow"
  /\ E.status = "Active"
  /\ \E i, j \in DOMAIN E.milestones :
       E.milestones[i].status = "Released" /\ E.milestones[j].status = "Cancelled"

(* C3: an agreement is created Active; its status then only moves from   *)
(* Active to Completed, Cancelled, Disputed or Expired and from Disputed *)
(* to Completed, Cancelled or Expired; a terminal status never changes   *)
(* and Disputed never returns to Active.                                 *)
StatusMoves ==
  ({"Active"} \X {"Completed", "Cancelled", "Disputed", "Expired"})
    \cup ({"Disputed"} \X {"Completed", "Cancelled", "Expired"})

C3_StatusStep ==
  /\ ~HasEscrow /\ HasEscrow' => E'.status = "Active"
  /\ HasEscrow /\ HasEscrow' =>
       E'.status = E.status \/ <<E.status, E'.status>> \in StatusMoves

C3_StatusMonotone == [][C3_StatusStep]_vars

C3_Witness ==
  /\ HasEscrow
  /\ E.status = "Completed"
  /\ E.dispute # <<>>
  /\ last = "resolveDispute"
(* C4: the rate recorded at creation is the FeeConfig rate of that moment *)
(* and never changes; every step that pays out of the vault credits the   *)
(* fee collector floor(gross * feeBpsAtCreation / 10000) of the gross     *)
(* amount settled for the beneficiary, the beneficiary the rest and the   *)
(* payer the refund, whatever rate FeeConfig holds at that moment.        *)
C4_FeeStep ==
  /\ ~HasEscrow /\ HasEscrow' => E'.feeBpsAtCreation = Cfg.feeBps
  /\ HasEscrow /\ HasEscrow' => E'.feeBpsAtCreation = E.feeBpsAtCreation
  /\ HasEscrow /\ HasEscrow' /\ vault' # vault =>
       LET gross == E'.releasedAmount - E.releasedAmount
           refund == E'.refundedAmount - E.refundedAmount
           fee == (gross * E.feeBpsAtCreation) \div BPS_DENOMINATOR
       IN /\ vault - vault' = gross + refund
          /\ bal' = [bal EXCEPT ![E.maker] = @ + refund,
                                ![Cfg.feeCollector] = @ + fee,
                                ![E.beneficiary] = @ + (gross - fee)]

C4_FeeSnapshot == [][C4_FeeStep]_vars

C4_Witness ==
  /\ HasEscrow
  /\ last = "releaseMilestone"
  /\ E.feeBpsAtCreation = 250
  /\ Cfg.feeBps = BPS_DENOMINATOR
  /\ bal[Collector] = 1
  /\ E.releasedAmount = 45

(* C5: on an Active or Disputed agreement claimExpired reports           *)
(* EscrowNotExpired for every caller while now is before the effective   *)
(* deadline (initiatedAt + timeout when Disputed, expiresAt when Active) *)
(* and is accepted for every caller once now has reached it.             *)
C5_ClaimExpiredAtDeadline ==
  HasEscrow /\ E.status \in {"Active", "Disputed"} =>
    LET deadline == IF E.status = "Disputed"
                    THEN E.dispute[1].initiatedAt + E.dispute[1].timeout
                    ELSE E.expiresAt
    IN /\ now < deadline => "EscrowNotExpired" \in ClaimExpiredErrs
       /\ now >= deadline => \A c \in Users : ENABLED ClaimExpired(c)

(* C6: initiateDispute reports EscrowNotActive to every caller whenever  *)
(* the status is not Active; it only ever acts on an agreement without a *)
(* dispute record, and the initiator, time and timeout of a record never *)
(* change once written.                                                  *)
C6_Rejected ==
  HasEscrow /\ E.status # "Active" =>
    \A c \in Users : "EscrowNotActive" \in InitiateDisputeErrs(c)

C6_RecordKept ==
  /\ StepOf("initiateDispute") => E.dispute = <<>> /\ E.status = "Active"
  /\ HasEscrow /\ HasEscrow' /\ E.dispute # <<>> =>
       /\ E'.dispute # <<>>
       /\ E'.dispute[1].initiator = E.dispute[1].initiator
       /\ E'.dispute[1].initiatedAt = E.dispute[1].initiatedAt
       /\ E'.dispute[1].timeout = E.dispute[1].timeout

C6_OneDispute == [](C6_Rejected) /\ [][C6_RecordKept]_vars

C6_Witness ==
  /\ HasEscrow
  /\ E.status = "Disputed"
  /\ E.beneficiary = "stranger"
  /\ E.dispute[1].initiator = "stranger"
  /\ now > E.dispute[1].initiatedAt

(* C7: releaseMilestone is accepted from any caller on an Active         *)
(* agreement before expiresAt for an Approved milestone (with a synced   *)
(* receipt, if one is recorded); a release step of milestone i           *)
(* debits the vault by its amount, credits the fee collector             *)
(* floor(amount * feeBpsAtCreation / 10000) and the current beneficiary  *)
(* the rest, adds the amount to releasedAmount and marks only milestone  *)
(* i Released.                                                           *)
C7_Accepted ==
  HasEscrow /\ E.status = "Active" /\ now < E.expiresAt /\ ReceiptSynced =>
    \A i \in DOMAIN E.milestones :
      E.milestones[i].status = "Approved" =>
        \A c \in Users : ENABLED ReleaseMilestone(c, i)

C7_ReleaseStep ==
  StepOf("releaseMilestone") =>
    \E i \in DOMAIN E.milestones :
      LET amt == E.milestones[i].amount
          fee == (amt * E.feeBpsAtCreation) \div BPS_DENOMINATOR
      IN /\ E.status = "Active"
         /\ E.milestones[i].status = "Approved"
         /\ E'.milestones = [E.milestones EXCEPT ![i].status = "Released"]
         /\ vault' = vault - amt
         /\ bal' = [bal EXCEPT ![Cfg.feeCollector] = @ + fee,
                               ![E.beneficiary] = @ + (amt - fee)]
         /\ E'.releasedAmount = E.releasedAmount + amt
         /\ E'.refundedAmount = E.refundedAmount

C7_ReleaseEffect == [](C7_Accepted) /\ [][C7_ReleaseStep]_vars

C7_Witness ==
  /\ HasEscrow
  /\ last = "releaseMilestone"
  /\ E.beneficiary = "stranger"
  /\ E.releasedAmount = 45
  /\ bal["stranger"] = 44
  /\ bal["taker"] = 0
  /\ bal[Collector] = 1

PendingSum(ms) ==
  SumSeq([i \in DOMAIN ms |-> IF ms[i].status = "Pending" THEN ms[i].amount ELSE 0])

C9_Guard ==
  HasEscrow =>
    /\ \A c \in Users :
         CancelEscrowErrs(c) = {} =>
           /\ c = E.maker
           /\ E.status = "Active"
           /\ \E i \in DOMAIN E.milestones : E.milestones[i].status = "Pending"
    /\ E.status # "Active" => "EscrowNotActive" \in CancelEscrowErrs(E.maker)
    /\ E.status = "Active" /\ PendingSum(E.milestones) = 0 =>
         "NoRefundableAmount" \in CancelEscrowErrs(E.maker)

C9_CancelStep ==
  StepOf("cancelEscrow") =>
    LET refund == PendingSum(E.milestones)
    IN /\ refund > 0
       /\ vault' = vault - refund
       /\ bal' = [bal EXCEPT ![E.maker] = @ + refund]
       /\ E'.refundedAmount = E.refundedAmount + refund
       /\ E'.releasedAmount = E.releasedAmount
       /\ E'.milestones =
            [i \in DOMAIN E.milestones |->
               IF E.milestones[i].status = "Pending"
               THEN [E.milestones[i] EXCEPT !.status = "Cancelled"]
               ELSE E.milestones[i]]

C9_CancelEffect == [](C9_Guard) /\ [][C9_CancelStep]_vars

C9_Witness ==
  /\ HasEscrow
  /\ last = "cancelEscrow"
  /\ E.refundedAmount = 30
  /\ vault = 75
  /\ CountMs(E.milestones, "Approved") = 2
  /\ CountMs(E.milestones, "Cancelled") = 1

(* C10 as stated: right after a cancel the status is Cancelled exactly *)
(* when no milestone is Approved and none is Released, Active          *)
(* otherwise.                                                          *)
C10_AsStated ==
  HasEscrow /\ last = "cancelEscrow" =>
    E.status = IF /\ CountMs(E.milestones, "Approved") = 0
                  /\ CountMs(E.milestones, "Released") = 0
               THEN "Cancelled" ELSE "Active"

(* C10: right after a cancel the status is Cancelled exactly when no   *)
(* milestone is left Approved, whether or not a milestone was Released *)
(* before, and Active otherwise.                                       *)
C10_CancelledIffNoneApproved ==
  HasEscrow /\ last = "cancelEscrow" =>
    E.status = IF \A i \in DOMAIN E.milestones : E.milestones[i].status # "Approved"
               THEN "Cancelled" ELSE "Active"

C10_Witness ==
  /\ HasEscrow
  /\ last = "cancelEscrow"
  /\ E.status = "Cancelled"
  /\ E.releasedAmount > 0
  /\ \E i \in DOMAIN E.milestones : E.milestones[i].status = "Released"

(* C11: a cancel step taken when some milestone is Released and none is *)
(* Approved sets the status to Cancelled, marks every Pending milestone *)
(* Cancelled, pays the payer the sum of their amounts and leaves the    *)
(* vault empty.                                                         *)
C11_CancelStep ==
  /\ StepOf("cancelEscrow")
  /\ CountMs(E.milestones, "Released") > 0
  /\ CountMs(E.milestones, "Approved") = 0
  => /\ E'.status = "Cancelled"
     /\ \A i \in DOMAIN E.milestones :
          E'.milestones[i].status =
            IF E.milestones[i].status = "Pending" THEN "Cancelled"
            ELSE E.milestones[i].status
     /\ bal'[E.maker] = bal[E.maker] + PendingSum(E.milestones)
     /\ vault' = 0

C11_CancelAfterRelease == [][C11_CancelStep]_vars

C11_Witness ==
  /\ HasEscrow
  /\ last = "cancelEscrow"
  /\ E.status = "Cancelled"
  /\ vault = 0
  /\ E.releasedAmount = 45
  /\ E.refundedAmount = 60
  /\ CountMs(E.milestones, "Cancelled") = 2

(* ---------------- dispute resolution over finer inputs ---------------- *)
FineFeeRates == {0, 1, 250, 9999, BPS_DENOMINATOR}
FineSplitBps == {0, 1, 3333, 5000, 9999, BPS_DENOMINATOR, BPS_DENOMINATOR + 1}
FineLists == {<<45>>, <<30, 45>>, <<1, 99>>}
FineResolutions ==
  {[kind |-> "MakerWins", makerBps |-> 0], [kind |-> "TakerWins", makerBps |-> 0]}
    \cup {[kind |-> "Split", makerBps |-> b] : b \in FineSplitBps}

ResolveStep(resolutions) ==
  \/ \E c \in Users : InitiateDispute(c)
  \/ \E c \in Users, r \in resolutions : ResolveDispute(c, r)

NextResolve ==
  \/ InitializeStep(FineFeeRates, {TickLen})
  \/ CreateStep(FineLists)
  \/ MilestoneStep
  \/ ResolveStep(FineResolutions)
  \/ ExpiryStep
  \/ AdvanceClock

SpecResolve == Init /\ [][NextResolve]_vars

(* C12: a resolve step splits R = amount - releasedAmount exactly:       *)
(* MakerWins pays R to the payer; TakerWins pays floor(R * rate / 10000) *)
(* to the collector and the rest to the beneficiary; Split pays          *)
(* floor(R * makerBps / 10000) to the payer, the fee on the other part   *)
(* to the collector and the rest to the beneficiary. The three payments  *)
(* are non-negative, add up to R, and R is what leaves the vault.        *)
C12_Payments(res) ==
  LET R == E.amount - E.releasedAmount
      payerShare == IF res.kind = "MakerWins" THEN R
                    ELSE IF res.kind = "TakerWins" THEN 0
                    ELSE (R * res.makerBps) \div BPS_DENOMINATOR
      fee == ((R - payerShare) * E.feeBpsAtCreation) \div BPS_DENOMINATOR
      net == R - payerShare - fee
  IN /\ payerShare >= 0 /\ fee >= 0 /\ net >= 0
     /\ payerShare + fee + net = R
     /\ res.kind = "MakerWins" => fee = 0 /\ net = 0
     /\ vault' = vault - R
     /\ bal' = [bal EXCEPT ![E.maker] = @ + payerShare,
                           ![Cfg.feeCollector] = @ + fee,
                           ![E.beneficiary] = @ + net]

C12_ResolveStep ==
  \A c \in Users, res \in FineResolutions :
    ResolveDispute(c, res) => C12_Payments(res)

C12_ResolveSplitsExactly == [][C12_ResolveStep]_vars

C12_Witness ==
  /\ HasEscrow
  /\ last = "resolveDispute"
  /\ E.amount = 75
  /\ E.releasedAmount = 51
  /\ E.refundedAmount = 24
  /\ E.feeBpsAtCreation = 250
  /\ bal[Collector] = 1
  /\ bal["taker"] = 50

(* C13: after a resolve step the status is Cancelled for MakerWins and  *)
(* Completed for TakerWins and Split; and a resolution that pays the    *)
(* payer all of R ends in Cancelled while one that leaves a part of R   *)
(* to the beneficiary ends in Completed.                                *)
C13_ResolveStep ==
  \A c \in Users, res \in Resolutions :
    ResolveDispute(c, res) =>
      LET R == E.amount - E.releasedAmount
          payerShare == IF res.kind = "MakerWins" THEN R
                        ELSE IF res.kind = "TakerWins" THEN 0
                        ELSE (R * res.makerBps) \div BPS_DENOMINATOR
      IN /\ E'.status = IF res.kind = "MakerWins" THEN "Cancelled" ELSE "Completed"
         /\ payerShare = R => E'.status = "Cancelled"
         /\ payerShare < R => E'.status = "Completed"

C13_StatusAfterResolve == [][C13_ResolveStep]_vars

(* C14: resolveDispute is accepted only from the FeeConfig authority, on *)
(* a Disputed agreement, before initiatedAt + timeout and, for Split,    *)
(* with makerBps <= 10000, and reports Unauthorized, DisputeNotActive,   *)
(* EscrowExpired and InvalidDisputeResolution otherwise; and on a        *)
(* Disputed agreement exactly one of resolveDispute by the authority and *)
(* claimExpired is accepted: resolveDispute before the deadline,         *)
(* claimExpired from the deadline on.                                    *)
C14_Guards ==
  HasEscrow /\ HasConfig =>
    \A c \in Users, res \in Resolutions :
      LET errs == ResolveDisputeErrs(c, res)
          deadline == E.dispute[1].initiatedAt + E.dispute[1].timeout
      IN /\ errs = {} =>
              /\ c = Cfg.authority
              /\ E.status = "Disputed"
              /\ now < deadline
              /\ res.kind = "Split" => res.makerBps <= BPS_DENOMINATOR
         /\ c # Cfg.authority => "Unauthorized" \in errs
         /\ E.status # "Disputed" => "DisputeNotActive" \in errs
         /\ E.status = "Disputed" /\ now >= deadline => "EscrowExpired" \in errs
         /\ res.kind = "Split" /\ res.makerBps > BPS_DENOMINATOR =>
              "InvalidDisputeResolution" \in errs

C14_ExactlyOne ==
  HasEscrow /\ HasConfig /\ E.status = "Disputed" =>
    LET deadline == E.dispute[1].initiatedAt + E.dispute[1].timeout
        canResolve == \E res \in Resolutions : ENABLED ResolveDispute(Cfg.authority, res)
        canClaim == \E c \in Users : ENABLED ClaimExpired(c)
    IN /\ canResolve # canClaim
       /\ canClaim <=> now >= deadline

C14_AtMostOne ==
  HasEscrow /\ HasConfig /\ E.status = "Disputed" =>
    LET deadline == E.dispute[1].initiatedAt + E.dispute[1].timeout
    IN /\ (\E res \in Resolutions : ENABLED ResolveDispute(Cfg.authority, res))
            => now < deadline
       /\ (\E c \in Users : ENABLED ClaimExpired(c)) => now >= deadline

C14_ResolveOrClaim == C14_Guards /\ C14_ExactlyOne

(* C15: a claimExpired step on an Active agreement (now >= expiresAt)    *)
(* turns every Approved milestone into Released and every Pending one    *)
(* into Cancelled, pays the payer the sum of the Pending amounts without *)
(* fee, pays the sum of the Approved amounts to beneficiary and fee      *)
(* collector with the fee taken at feeBpsAtCreation, and sets the status *)
(* to Expired; with no Pending milestone the payer receives nothing.     *)
StatusSum(ms, st) ==
  SumSeq([i \in DOMAIN ms |-> IF ms[i].status = st THEN ms[i].amount ELSE 0])

FeeSum(ms, st, bps) ==
  SumSeq([i \in DOMAIN ms |->
            IF ms[i].status = st THEN (ms[i].amount * bps) \div BPS_DENOMINATOR ELSE 0])

C15_ExpiryStep ==
  \A c \in Users :
    ClaimExpired(c) /\ E.status = "Active" =>
      LET pending == StatusSum(E.milestones, "Pending")
          approved == StatusSum(E.milestones, "Approved")
          fee == bal'[Cfg.feeCollector] - bal[Cfg.feeCollector]
      IN /\ now >= E.expiresAt
         /\ E'.status = "Expired"
         /\ \A i \in DOMAIN E.milestones :
              E'.milestones[i].status =
                CASE E.milestones[i].status = "Approved" -> "Released"
                  [] E.milestones[i].status = "Pending" -> "Cancelled"
                  [] OTHER -> E.milestones[i].status
         /\ bal'[E.maker] = bal[E.maker] + pending
         /\ bal'[E.beneficiary] = bal[E.beneficiary] + (approved - fee)
         /\ FeeSum(E.milestones, "Approved", E.feeBpsAtCreation) <= fee
         /\ fee <= (approved * E.feeBpsAtCreation) \div BPS_DENOMINATOR
         /\ vault' = vault - (pending + approved)
         /\ E'.refundedAmount = E.refundedAmount + pending
         /\ E'.releasedAmount = E.releasedAmount + approved

C15_ActiveExpiry == [][C15_ExpiryStep]_vars

C15_Witness ==
  /\ HasEscrow
  /\ last = "claimExpired"
  /\ E.status = "Expired"
  /\ E.dispute = <<>>
  /\ E.releasedAmount = 45
  /\ E.refundedAmount = 60
  /\ bal[Collector] = 1
  /\ bal["taker"] = 44

(* C16: a claimExpired step on a Disputed agreement (at or after         *)
(* initiatedAt + timeout) pays the payer floor(R / 2) of the remaining   *)
(* amount R without fee, pays the collector floor(half * rate / 10000)   *)
(* of the other half R - floor(R / 2) and the beneficiary the rest,      *)
(* whatever the milestone statuses are, and sets the status to Expired;  *)
(* the three amounts are those of a Split resolution with makerBps 5000. *)
EvenSplit == [kind |-> "Split", makerBps |-> 5000]

C16_TimeoutStep ==
  \A c \in Users :
    ClaimExpired(c) /\ E.status = "Disputed" =>
      LET R == E.amount - E.releasedAmount
          payerHalf == R \div 2
          otherHalf == R - payerHalf
          fee == (otherHalf * E.feeBpsAtCreation) \div BPS_DENOMINATOR
      IN /\ now >= E.dispute[1].initiatedAt + E.dispute[1].timeout
         /\ E'.status = "Expired"
         /\ vault' = vault - R
         /\ bal' = [bal EXCEPT ![E.maker] = @ + payerHalf,
                               ![Cfg.feeCollector] = @ + fee,
                               ![E.beneficiary] = @ + (otherHalf - fee)]
         /\ payerHalf = MakerShare(EvenSplit, R)
         /\ fee = CalcFee(R - MakerShare(EvenSplit, R), SettlementFeeBps)

C16_DisputeTimeout == [][C16_TimeoutStep]_vars

C16_Witness ==
  /\ HasEscrow
  /\ last = "claimExpired"
  /\ E.status = "Expired"
  /\ E.dispute # <<>>
  /\ E.amount = 45
  /\ E.feeBpsAtCreation = 9999
  /\ bal["maker"] = MakerFunds - 45 + 22
  /\ bal[Collector] = 22
  /\ bal["taker"] = 1

(* C17: transferClaim is accepted exactly when the caller is the current *)
(* beneficiary, the status is Active, the new beneficiary is not the     *)
(* payer and no receipt is recorded, and reports NotBeneficiary,         *)
(* EscrowNotActive, InvalidBeneficiary and ReceiptExists otherwise; an   *)
(* accepted call only sets beneficiary. A receipt stays recorded from a  *)
(* mintReceipt step until a revokeReceipt step, every transferClaim in   *)
(* between reports ReceiptExists, and right after the revokeReceipt step *)
(* no call reports it any more.                                          *)
ClaimTargets == {"maker", "taker", "stranger"}

C17_Guards ==
  HasEscrow =>
    \A c \in Users, n \in ClaimTargets :
      LET errs == TransferClaimErrs(c, n)
      IN /\ errs = {} <=> /\ c = E.beneficiary
                          /\ E.status = "Active"
                          /\ n # E.maker
                          /\ ~E.receiptMint
         /\ ENABLED TransferClaim(c, n) <=> errs = {}
         /\ c # E.beneficiary => "NotBeneficiary" \in errs
         /\ E.status # "Active" => "EscrowNotActive" \in errs
         /\ n = E.maker => "InvalidBeneficiary" \in errs
         /\ E.receiptMint => "ReceiptExists" \in errs
         /\ last = "revokeReceipt" => "ReceiptExists" \notin errs

C17_TransferStep ==
  /\ StepOf("transferClaim") =>
       /\ ~E.receiptMint
       /\ \E n \in ClaimTargets : escrow' = <<[E EXCEPT !.beneficiary = n]>>
       /\ UNCHANGED <<config, closed, vault, bal, nft, now>>
  /\ StepOf("mintReceipt") => E'.receiptMint
  /\ HasEscrow /\ HasEscrow' /\ E.receiptMint /\ ~E'.receiptMint =>
       last' = "revokeReceipt"

C17_TransferClaim == [](C17_Guards) /\ [][C17_TransferStep]_vars

C17_Witness ==
  /\ HasEscrow
  /\ last = "transferClaim"
  /\ ~E.receiptMint
  /\ nft # <<>>
  /\ nft[1].supply = 0
  /\ E.taker = "taker"
  /\ E.beneficiary = "stranger"

(* C18: while a receipt is recorded and held by someone other than the *)
(* recorded beneficiary, releaseMilestone reports BeneficiaryNotSynced *)
(* for every milestone and no call of it is accepted; with a receipt   *)
(* recorded the beneficiary only changes by a syncBeneficiary step, to *)
(* the holder; and a release step then pays the holder.                *)
C18_Blocked ==
  HasEscrow /\ E.receiptMint /\ nft # <<>> /\ nft[1].supply = 1
    /\ nft[1].holder # E.beneficiary =>
      \A i \in MsIndexes :
        /\ "BeneficiaryNotSynced" \in ReleaseMilestoneErrs(i)
        /\ \A c \in Users : ~ENABLED ReleaseMilestone(c, i)

C18_Step ==
  /\ HasEscrow /\ HasEscrow' /\ E.receiptMint /\ E'.beneficiary # E.beneficiary =>
       /\ last' = "syncBeneficiary"
       /\ E'.beneficiary = nft[1].holder
  /\ StepOf("releaseMilestone") /\ E.receiptMint =>
       /\ nft[1].supply = 1
       /\ nft[1].holder = E.beneficiary
       /\ bal'[nft[1].holder] - bal[nft[1].holder] =
            (E'.releasedAmount - E.releasedAmount)
              - (bal'[Cfg.feeCollector] - bal[Cfg.feeCollector])
       /\ \A h \in Users \ {nft[1].holder} : bal'[h] = bal[h]

C18_ReleaseNeedsSync == [](C18_Blocked) /\ [][C18_Step]_vars

C18_Witness ==
  /\ HasEscrow
  /\ last = "releaseMilestone"
  /\ E.receiptMint
  /\ nft[1].supply = 1
  /\ nft[1].holder = "stranger"
  /\ E.beneficiary = "stranger"
  /\ E.taker = "taker"
  /\ bal["stranger"] = 44
  /\ bal["taker"] = 0

(* C19: syncBeneficiary is accepted, from any caller alike, only with a  *)
(* receipt recorded, in status Active or Disputed and with a holder that *)
(* differs from the recorded beneficiary; it reports EscrowNotActive in  *)
(* a terminal status and BeneficiaryAlreadySynced when the holder is the *)
(* beneficiary. A sync step sets beneficiary to the holder and changes   *)
(* nothing else: not the status, the dispute, the milestones, the        *)
(* amounts or any balance.                                               *)
C19_Guards ==
  HasEscrow =>
    /\ SyncBeneficiaryErrs = {} =>
         /\ E.receiptMint
         /\ E.status \in {"Active", "Disputed"}
         /\ nft[1].holder # E.beneficiary
    /\ E.status \in Terminal => "EscrowNotActive" \in SyncBeneficiaryErrs
    /\ E.status \in {"Active", "Disputed"} =>
         "EscrowNotActive" \notin SyncBeneficiaryErrs
    /\ E.receiptMint /\ nft[1].supply = 1 /\ nft[1].holder = E.beneficiary =>
         "BeneficiaryAlreadySynced" \in SyncBeneficiaryErrs
    /\ \A c \in Users : ENABLED SyncBeneficiary(c) <=> SyncBeneficiaryErrs = {}

C19_SyncStep ==
  StepOf("syncBeneficiary") =>
    /\ nft[1].holder # E.beneficiary
    /\ escrow' = <<[E EXCEPT !.beneficiary = nft[1].holder]>>
    /\ UNCHANGED <<config, closed, vault, bal, nft, now>>

C19_SyncBeneficiary == [](C19_Guards) /\ [][C19_SyncStep]_vars

C19_Witness ==
  /\ HasEscrow
  /\ last = "syncBeneficiary"
  /\ E.status = "Disputed"
  /\ E.dispute[1].initiator = "taker"
  /\ E.beneficiary = "stranger"
  /\ nft[1].holder = "stranger"

(* C20: a new agreement has no receipt recorded; the record is set only  *)
(* by a mintReceipt step, which is accepted only from the current        *)
(* beneficiary on an Active agreement without a record (otherwise        *)
(* ReceiptAlreadyMinted) and issues the receipt to that beneficiary; it  *)
(* is cleared only by a revokeReceipt step, which any caller may take    *)
(* but only when the receipt's supply is zero (otherwise                 *)
(* ReceiptNotBurned). No other step changes the record.                  *)
C20_Guards ==
  HasEscrow =>
    /\ \A c \in Users :
         /\ MintReceiptErrs(c) = {} =>
              c = E.beneficiary /\ E.status = "Active" /\ ~E.receiptMint
         /\ E.receiptMint => "ReceiptAlreadyMinted" \in MintReceiptErrs(c)
         /\ ENABLED MintReceipt(c) <=> MintReceiptErrs(c) = {}
         /\ ENABLED RevokeReceipt(c) <=> RevokeReceiptErrs = {}
    /\ RevokeReceiptErrs = {} => E.receiptMint /\ nft[1].supply = 0
    /\ E.receiptMint /\ nft[1].supply # 0 => "ReceiptNotBurned" \in RevokeReceiptErrs

C20_HandleStep ==
  /\ ~HasEscrow /\ HasEscrow' => ~E'.receiptMint
  /\ HasEscrow /\ HasEscrow' /\ ~E.receiptMint /\ E'.receiptMint =>
       /\ last' = "mintReceipt"
       /\ E.status = "Active"
       /\ nft' = <<[holder |-> E.beneficiary, supply |-> 1]>>
       /\ E' = [E EXCEPT !.receiptMint = TRUE]
  /\ HasEscrow /\ HasEscrow' /\ E.receiptMint /\ ~E'.receiptMint =>
       /\ last' = "revokeReceipt"
       /\ nft[1].supply = 0
       /\ E' = [E EXCEPT !.receiptMint = FALSE]
  /\ StepOf("mintReceipt") => ~E.receiptMint /\ E'.receiptMint
  /\ StepOf("revokeReceipt") => E.receiptMint /\ ~E'.receiptMint

C20_ReceiptRecord == [](C20_Guards) /\ [][C20_HandleStep]_vars

C20_Witness ==
  /\ HasEscrow
  /\ last = "revokeReceipt"
  /\ ~E.receiptMint
  /\ nft[1].supply = 0
  /\ E.status = "Disputed"

(* ---------------- disputes under a changing timeout ---------------- *)
TimeoutRequests == {[NoChange EXCEPT !.timeout = t] : t \in Timeouts \cup {0}}

(* The lifecycle while the claim is transferred and the authority changes *)
(* the dispute timeout.                                                   *)
NextDispute ==
  \/ InitializeStep({250}, Timeouts)
  \/ UpdateStep(TimeoutRequests)
  \/ CreateStep({<<30, 45>>})
  \/ MilestoneStep
  \/ DisputeStep
  \/ ExpiryStep
  \/ ClaimStep
  \/ AdvanceClock

SpecDispute == Init /\ [][NextDispute]_vars

C21_Guards ==
  (HasEscrow /\ E.status = "Active") =>
    \A c \in Users :
      /\ (ENABLED InitiateDispute(c)) <=> c \in {E.maker, E.beneficiary}
      /\ c \notin {E.maker, E.beneficiary} =>
           "NotEscrowParty" \in InitiateDisputeErrs(c)

C21_DisputeStep ==
  \A c \in Users :
    InitiateDispute(c) =>
      /\ E.status = "Active"
      /\ escrow' = <<[E EXCEPT !.status = "Disputed",
                               !.dispute = <<[initiator |-> c,
                                              initiatedAt |-> now,
                                              timeout |-> Cfg.disputeTimeout,
                                              resolution |-> "None"]>>]>>
      /\ UNCHANGED <<config, vault, bal, nft, now>>

C22_Rejected ==
  \A q \in {"maker", "taker"}, am \in AmountLists \cup BadLists, d \in Durations :
    \A tot \in {0, SumSeq(am), SumSeq(am) + 1} :
      LET errs == CreateEscrowErrs("maker", q, tot, am, now + d)
      IN /\ (Len(am) = 0 \/ Len(am) > 5) => "InvalidMilestoneCount" \in errs
         /\ SumSeq(am) # tot => "MilestoneAmountMismatch" \in errs
         /\ tot = 0 => "InvalidAmount" \in errs
         /\ q = "maker" => "SelfEscrow" \in errs
         /\ d < MIN_EXPIRATION_DURATION => "InvalidExpiration" \in errs
         /\ errs # {} => ~ENABLED CreateEscrow("maker", q, tot, am, now + d)

C22_Stored ==
  HasEscrow =>
    /\ Len(E.milestones) \in 1..5
    /\ SumAmounts(E.milestones) = E.amount
    /\ E.amount > 0
    /\ E.maker # E.taker
    /\ E.expiresAt >= E.createdAt + MIN_EXPIRATION_DURATION

(* C22: create is rejected, with no record written and no value moved,   *)
(* when the milestone list is empty or longer than 5                     *)
(* (InvalidMilestoneCount), the amounts do not sum to totalAmount        *)
(* (MilestoneAmountMismatch), totalAmount is 0 (InvalidAmount), payer =  *)
(* originalPayee (SelfEscrow) or expiresAt < now + MIN_DURATION          *)
(* (InvalidExpiration); hence every stored agreement always has 1 to 5   *)
(* milestones summing to totalAmount > 0, payer # originalPayee and      *)
(* expiresAt >= createdAt + MIN_DURATION.                                *)
C22_CreateValidated == C22_Rejected /\ C22_Stored

C22_Witness ==
  /\ HasEscrow
  /\ E.status = "Expired"
  /\ Len(E.milestones) = 3
  /\ E.createdAt = TickLen
  /\ E.expiresAt = E.createdAt + MIN_EXPIRATION_DURATION

C23_Created ==
  (~HasEscrow /\ HasEscrow') =>
    LET e == escrow'[1]
    IN /\ last' = "createEscrow"
       /\ e.status = "Active"
       /\ e.beneficiary = e.taker
       /\ \A i \in DOMAIN e.milestones : e.milestones[i].status = "Pending"
       /\ e.releasedAmount = 0
       /\ e.refundedAmount = 0
       /\ e.dispute = <<>>
       /\ e.receiptMint = FALSE
       /\ e.feeBpsAtCreation = Cfg.feeBps
       /\ bal'[e.maker] = bal[e.maker] - e.amount
       /\ \A h \in Holders \ {e.maker} : bal'[h] = bal[h]
       /\ vault' = e.amount

C23_CreateInputs ==
  \A q \in {"maker", "taker"}, am \in AmountLists, d \in Durations :
    CreateEscrow("maker", q, SumSeq(am), am, now + d) =>
      /\ escrow'[1].maker = "maker"
      /\ escrow'[1].taker = q
      /\ escrow'[1].amount = SumSeq(am)
      /\ [i \in DOMAIN am |-> escrow'[1].milestones[i].amount] = am

(* C23: right after a successful create the agreement is Active with     *)
(* beneficiary = originalPayee, every milestone Pending, releasedAmount  *)
(* = refundedAmount = 0, no dispute, no certificate handle and           *)
(* feeBpsAtCreation = FeeConfig.feeBps of that moment; the payer's       *)
(* balance went down by exactly totalAmount and the vault holds exactly  *)
(* totalAmount.                                                          *)
C23_CreateEffect == [][C23_Created /\ C23_CreateInputs]_vars

C23_Witness ==
  /\ HasEscrow
  /\ last = "createEscrow"
  /\ E.status = "Active"
  /\ E.feeBpsAtCreation = 0
  /\ vault = 75
  /\ bal["maker"] = MakerFunds - 75

C24_Guards ==
  HasEscrow =>
    \A c \in Users, i \in MsIndexes :
      /\ (ENABLED ApproveMilestone(c, i)) =>
           /\ c = E.maker
           /\ E.status = "Active"
           /\ now <= E.expiresAt
           /\ i \in DOMAIN E.milestones
           /\ E.milestones[i].status = "Pending"
      /\ now > E.expiresAt => "EscrowExpired" \in ApproveMilestoneErrs(c, i)
      /\ (i \in DOMAIN E.milestones /\ E.milestones[i].status # "Pending") =>
           "MilestoneNotPending" \in ApproveMilestoneErrs(c, i)

C24_ApproveStep ==
  \A c \in Users, i \in MsIndexes :
    ApproveMilestone(c, i) =>
      /\ escrow' = <<[E EXCEPT !.milestones[i].status = "Approved"]>>
      /\ UNCHANGED <<config, closed, vault, bal, nft, now>>

(* C24: approveMilestone(i) succeeds only for the payer on an Active     *)
(* agreement not past expiresAt (else EscrowExpired) whose milestone i   *)
(* is Pending (else MilestoneNotPending); its only effect is milestone   *)
(* i: Pending -> Approved, with balances, releasedAmount,                *)
(* refundedAmount, status and the other milestones unchanged.            *)
C24_ApproveFrame == [](C24_Guards) /\ [][C24_ApproveStep]_vars

C24_Witness ==
  /\ HasEscrow
  /\ last = "approveMilestone"
  /\ Len(E.milestones) = 3
  /\ E.milestones[1].status = "Pending"
  /\ E.milestones[2].status = "Approved"
  /\ E.milestones[3].status = "Released"
  /\ E.status = "Active"
  /\ now = E.expiresAt

(* ---------------- deposits into the vault from outside ---------------- *)
DustUnit == 10
MaxDust == 2 * DustUnit

(* Anyone can transfer tokens into the vault's token account directly. *)
ExternalDeposit(from, amt) ==
  /\ HasEscrow
  /\ bal[from] >= amt
  /\ (vault - Accounted) + amt <= MaxDust
  /\ bal' = [bal EXCEPT ![from] = @ - amt]
  /\ vault' = vault + amt
  /\ UNCHANGED <<config, escrow, closed, nft, now, last>>

DepositStep == \E from \in {"maker", "taker"} : ExternalDeposit(from, DustUnit)

(* The lifecycle with deposits into the vault from outside. *)
NextClose ==
  \/ InitializeStep({250}, {TickLen})
  \/ CreateStep({<<30, 45>>})
  \/ MilestoneStep
  \/ DisputeStep
  \/ ExpiryStep
  \/ DepositStep
  \/ AdvanceClock

SpecClose == Init /\ [][NextClose]_vars

C25_Guards ==
  HasEscrow =>
    \A c \in Users :
      /\ (ENABLED CloseEscrow(c)) =>
           (c = E.maker /\ E.status \in {"Completed", "Cancelled", "Expired"})
      /\ E.status \in {"Active", "Disputed"} =>
           "EscrowNotTerminal" \in CloseEscrowErrs(c)

C25_CloseStep ==
  \A c \in Users :
    CloseEscrow(c) =>
      /\ bal' = [bal EXCEPT ![E.maker] = @ + vault]
      /\ vault' = 0
      /\ escrow' = <<>>
      /\ UNCHANGED <<config, nft, now>>

C25_Gone ==
  (closed /\ ~HasEscrow) =>
    /\ ~ENABLED MilestoneStep
    /\ ~ENABLED DisputeStep
    /\ ~ENABLED ExpiryStep
    /\ ~ENABLED ClaimStep
    /\ \A c \in Users :
         /\ ~ENABLED MintReceipt(c)
         /\ ~ENABLED SyncBeneficiary(c)
         /\ ~ENABLED RevokeReceipt(c)

(* C25: closeEscrow succeeds only for the payer on a Completed,          *)
(* Cancelled or Expired agreement (Active or Disputed give               *)
(* EscrowNotTerminal); it pays the vault's whole balance, tokens         *)
(* deposited from outside included, to the payer and deletes the         *)
(* record, and afterwards every operation on that agreement fails.       *)
C25_CloseEscrow == [](C25_Guards /\ C25_Gone) /\ [][C25_CloseStep]_vars

C25_Witness ==
  /\ closed
  /\ ~HasEscrow
  /\ last = "closeEscrow"
  /\ vault = 0
  /\ bal["taker"] = 30 - DustUnit
  /\ bal["maker"] = MakerFunds - 30 + DustUnit

(* ---------------- the FeeConfig under every request ---------------- *)
(* initialize_config takes the dispute timeout as a signed number. *)
InitTimeouts == Timeouts \cup {0}

(* The lifecycle of a one-milestone agreement while the FeeConfig is *)
(* initialized and updated with every request of the model.          *)
NextConfig ==
  \/ InitializeStep(FeeRates, InitTimeouts)
  \/ UpdateStep(UpdateRequests)
  \/ CreateStep({<<45>>})
  \/ MilestoneStep
  \/ DisputeStep
  \/ ExpiryStep
  \/ AdvanceClock

SpecConfig == Init /\ [][NextConfig]_vars

C26_Guards ==
  HasConfig =>
    /\ \A c \in Users, f \in FeeRates, t \in Timeouts :
         /\ "AlreadyInitialized" \in InitializeConfigErrs(f)
         /\ ~ENABLED InitializeConfig(c, f, t, Collector)
    /\ \A c \in Users, u \in UpdateRequests :
         /\ c # Cfg.authority =>
              /\ "Unauthorized" \in UpdateConfigErrs(c, u.authority, u.feeBps, u.timeout)
              /\ ~ENABLED UpdateConfig(c, u.authority, u.feeBps, u.timeout)
         /\ (/\ c = Cfg.authority
             /\ u.authority # NullId
             /\ u.feeBps <= BPS_DENOMINATOR
             /\ u.timeout # 0) =>
              ENABLED UpdateConfig(c, u.authority, u.feeBps, u.timeout)

C26_Changes ==
  config' # config =>
    \/ /\ ~HasConfig
       /\ last' = "initializeConfig"
    \/ /\ HasConfig
       /\ \E u \in UpdateRequests :
            UpdateConfig(Cfg.authority, u.authority, u.feeBps, u.timeout)

C26_UpdateStep ==
  \A c \in Users, u \in UpdateRequests :
    UpdateConfig(c, u.authority, u.feeBps, u.timeout) =>
      /\ c = Cfg.authority
      /\ config'[1].authority =
           (IF u.authority = "unset" THEN Cfg.authority ELSE u.authority)
      /\ config'[1].feeBps = (IF u.feeBps = Unset THEN Cfg.feeBps ELSE u.feeBps)
      /\ config'[1].disputeTimeout =
           (IF u.timeout = Unset THEN Cfg.disputeTimeout ELSE u.timeout)
      /\ config'[1].feeCollector = Cfg.feeCollector

(* C26: the FeeConfig changes only in the first successful initialize    *)
(* and in an update called by the authority of the moment: a second      *)
(* initialize gets AlreadyInitialized, an update by anyone else gets     *)
(* Unauthorized and changes nothing, after update(newAuthority) the old  *)
(* authority is rejected and the new one accepted, and fields passed as  *)
(* unset keep their value.                                               *)
C26_ConfigAuthority == [](C26_Guards) /\ [][C26_Changes /\ C26_UpdateStep]_vars

C26_Witness ==
  /\ HasConfig
  /\ last = "updateConfig"
  /\ Cfg.authority = "stranger"
  /\ Cfg.feeBps = 0
  /\ Cfg.disputeTimeout = 2 * TickLen
  /\ ENABLED UpdateConfig("stranger", "authority", Unset, Unset)
  /\ ~ENABLED UpdateConfig("authority", "unset", 250, Unset)

(* C27: whenever the FeeConfig exists, after initialize with any         *)
(* accepted arguments and after any successful or rejected updates,      *)
(* feeBps <= 10000, disputeTimeoutSeconds > 0 and the authority is not   *)
(* the null identity.                                                    *)
C27_ConfigInvariant ==
  HasConfig =>
    /\ Cfg.feeBps <= BPS_DENOMINATOR
    /\ Cfg.disputeTimeout > 0
    /\ Cfg.authority # NullId

(* What holds of the FeeConfig regardless of the timeout it was *)
(* initialized with: the rate, the authority, and a positive    *)
(* timeout once it is positive.                                 *)
C27_RateAndAuthority ==
  HasConfig => (Cfg.feeBps <= BPS_DENOMINATOR /\ Cfg.authority # NullId)

C27_UpdateKeepsTimeout ==
  [][(HasConfig /\ Cfg.disputeTimeout > 0) => config'[1].disputeTimeout > 0]_vars

C28_ConfigCalls ==
  /\ \A c \in Users, f \in FeeRates \cup {BPS_DENOMINATOR + 1}, t \in Timeouts :
       InitializeConfigErrs(f) # {} => ~ENABLED InitializeConfig(c, f, t, Collector)
  /\ \A c \in Users, u \in UpdateRequests :
       UpdateConfigErrs(c, u.authority, u.feeBps, u.timeout) # {} =>
         ~ENABLED UpdateConfig(c, u.authority, u.feeBps, u.timeout)

C28_CreateCalls ==
  \A q \in {"maker", "taker"}, am \in AmountLists \cup BadLists, d \in Durations :
    \A tot \in {0, SumSeq(am), SumSeq(am) + 1} :
      CreateEscrowErrs("maker", q, tot, am, now + d) # {} =>
        ~ENABLED CreateEscrow("maker", q, tot, am, now + d)

C28_SettlementCalls ==
  \A c \in Users :
    /\ \A i \in MsIndexes :
         /\ ApproveMilestoneErrs(c, i) # {} => ~ENABLED ApproveMilestone(c, i)
         /\ ReleaseMilestoneErrs(i) # {} => ~ENABLED ReleaseMilestone(c, i)
    /\ CancelEscrowErrs(c) # {} => ~ENABLED CancelEscrow(c)
    /\ InitiateDisputeErrs(c) # {} => ~ENABLED InitiateDispute(c)
    /\ \A r \in Resolutions :
         ResolveDisputeErrs(c, r) # {} => ~ENABLED ResolveDispute(c, r)
    /\ ClaimExpiredErrs # {} => ~ENABLED ClaimExpired(c)
    /\ CloseEscrowErrs(c) # {} => ~ENABLED CloseEscrow(c)

C28_ClaimCalls ==
  \A c \in Users :
    /\ \A n \in {"maker", "taker", "stranger"} :
         TransferClaimErrs(c, n) # {} => ~ENABLED TransferClaim(c, n)
    /\ MintReceiptErrs(c) # {} => ~ENABLED MintReceipt(c)
    /\ SyncBeneficiaryErrs # {} => ~ENABLED SyncBeneficiary(c)
    /\ RevokeReceiptErrs # {} => ~ENABLED RevokeReceipt(c)

C29_ReleaseRace ==
  \A c \in Users, i \in MsIndexes :
    ReleaseMilestone(c, i) =>
      /\ \A c2 \in Users : ENABLED ReleaseMilestone(c2, i)
      /\ ("MilestoneNotApproved" \in ReleaseMilestoneErrs(i))'
      /\ vault' = vault - E.milestones[i].amount
      /\ bal'[E.beneficiary] = bal[E.beneficiary] + E.milestones[i].amount
                                 - CalcFee(E.milestones[i].amount, E.feeBpsAtCreation)

C29_ResolveRace ==
  /\ (\E c \in Users, r \in Resolutions : ResolveDispute(c, r)) =>
       ("EscrowNotActive" \in ClaimExpiredErrs)'
  /\ (HasEscrow /\ E.status = "Disputed" /\ \E c \in Users : ClaimExpired(c)) =>
       (\A c \in Users, r \in Resolutions :
          "DisputeNotActive" \in ResolveDisputeErrs(c, r))'

(* C29: racing operations on one agreement take effect one after the    *)
(* other, the later one validated against the state the earlier one      *)
(* left: of two releaseMilestone(i) calls for the same Approved          *)
(* milestone the first succeeds, the second gets MilestoneNotApproved    *)
(* and the beneficiary is paid once; of a resolveDispute and a           *)
(* claimExpired on a Disputed agreement, whichever takes effect first    *)
(* makes the other fail.                                                 *)
C29_Serialized == [][C29_ReleaseRace /\ C29_ResolveRace]_vars

C29_Witness ==
  /\ HasEscrow
  /\ last = "releaseMilestone"
  /\ E.status = "Active"
  /\ E.milestones[1].status = "Released"
  /\ E.releasedAmount = E.milestones[1].amount
  /\ vault = E.amount - E.milestones[1].amount
  /\ \A c \in Users : ~ENABLED ReleaseMilestone(c, 1)

(* ---------------- settlement by a third party alone ---------------- *)
(* The last instant of the model's clock: an agreement or a dispute is *)
(* opened only if its deadline falls within it.                        *)
Horizon == MaxTicks * TickLen

LiveCreateStep ==
  \E q \in {"maker", "taker"}, am \in {<<30, 45>>} \cup BadLists, d \in Durations :
    \E tot \in {0, SumSeq(am), SumSeq(am) + 1} :
      /\ now + d <= Horizon
      /\ CreateEscrow("maker", q, tot, am, now + d)

LiveDisputeStep ==
  \/ \E c \in Users : InitiateDispute(c) /\ now + Cfg.disputeTimeout <= Horizon
  \/ \E c \in Users, r \in Resolutions : ResolveDispute(c, r)

NextLive ==
  \/ InitializeStep({250}, {TickLen})
  \/ LiveCreateStep
  \/ MilestoneStep
  \/ LiveDisputeStep
  \/ ExpiryStep
  \/ AdvanceClock

(* The clock keeps advancing and a third party keeps calling *)
(* claim_expired; nobody else is obliged to act.             *)
SpecLive ==
  /\ Init
  /\ [][NextLive]_vars
  /\ WF_vars(AdvanceClock)
  /\ WF_vars(ClaimExpired("stranger"))

Settled ==
  /\ HasEscrow
  /\ E.status \in Terminal
  /\ E.releasedAmount + E.refundedAmount = E.amount

(* C30: from every reachable non-terminal state, if time keeps advancing *)
(* and some third party keeps attempting claimExpired, the agreement     *)
(* eventually reaches a terminal status with releasedAmount +            *)
(* refundedAmount = totalAmount, whatever the payer, the beneficiary,    *)
(* the certificate holder and the authority do or fail to do.            *)
C30_EventuallySettled == (HasEscrow /\ E.status \notin Terminal) ~> Settled

(* The only agreements a third party cannot settle: Disputed with a *)
(* vault that holds less than the amount the settlement divides.    *)
Underfunded == HasEscrow /\ E.status = "Disputed" /\ vault < Remaining

C30_SettledOrUnderfunded ==
  (HasEscrow /\ E.status \notin Terminal) ~> (Settled \/ Underfunded)

(* Past its deadline an underfunded dispute accepts no instruction at *)
(* all, from anyone: only the clock moves.                            *)
C30_UnderfundedStuck ==
  (Underfunded /\ now >= DisputeDeadline) =>
    /\ ~ENABLED MilestoneStep
    /\ ~ENABLED LiveDisputeStep
    /\ ~ENABLED ExpiryStep
    /\ "InsufficientFunds" \in ClaimExpiredErrs

C31_ExpiryFee(c, fee) ==
  (ClaimExpired(c) /\ E.status = "Active") =>
    /\ bal'[Cfg.feeCollector] = bal[Cfg.feeCollector] + fee
    /\ bal'[E.beneficiary] =
         bal[E.beneficiary] + StatusSum(E.milestones, "Approved") - fee

(* C31: on an Active agreement past expiresAt, claimExpired credits the  *)
(* beneficiary and the fee collector with the totals that one            *)
(* releaseMilestone per Approved milestone would credit, the fee being   *)
(* truncated per milestone and not computed once on the summed amount.   *)
C31_FeePerMilestone ==
  [][\A c \in Users :
       C31_ExpiryFee(c, FeeSum(E.milestones, "Approved", E.feeBpsAtCreation))]_vars

(* What claim_expired credits instead: one fee on the summed approved    *)
(* amount, never less than the per-milestone fees together and above     *)
(* them by less than the number of Approved milestones.                  *)
C31_FeeOnSum ==
  [][\A c \in Users :
       /\ C31_ExpiryFee(c, CalcFee(StatusSum(E.milestones, "Approved"),
                                   E.feeBpsAtCreation))
       /\ (ClaimExpired(c) /\ E.status = "Active") =>
            LET perMs == FeeSum(E.milestones, "Approved", E.feeBpsAtCreation)
                onSum == CalcFee(StatusSum(E.milestones, "Approved"),
                                 E.feeBpsAtCreation)
            IN /\ perMs <= onSum
               /\ onSum - perMs < CountMs(E.milestones, "Approved")
                    \/ CountMs(E.milestones, "Approved") = 0]_vars

C32_Deadline ==
  (HasEscrow /\ E.status = "Disputed") =>
    LET deadline == E.dispute[1].initiatedAt + E.dispute[1].timeout
    IN /\ \A r \in Resolutions :
            "EscrowExpired" \in ResolveDisputeErrs(Cfg.authority, r) <=> now >= deadline
       /\ "EscrowNotExpired" \in ClaimExpiredErrs <=> now < deadline
       /\ (ENABLED ClaimExpired("stranger")) => now >= deadline

C32_UpdateStep ==
  (HasEscrow /\ E.status = "Disputed" /\ config' # config) =>
    /\ escrow' = escrow
    /\ \A r \in Resolutions :
         ("EscrowExpired" \in ResolveDisputeErrs(Cfg.authority, r))'
           <=> "EscrowExpired" \in ResolveDisputeErrs(Cfg.authority, r)
    /\ ("EscrowNotExpired" \in ClaimExpiredErrs)'
         <=> "EscrowNotExpired" \in ClaimExpiredErrs

(* C32: the deadline of an open dispute is initiatedAt plus the timeout  *)
(* the FeeConfig held when the dispute was opened; an update of the      *)
(* FeeConfig's timeout while the agreement is Disputed moves neither the *)
(* instant from which resolveDispute fails with EscrowExpired nor the    *)
(* instant from which claimExpired succeeds.                             *)
C32_DeadlineFixed == [](C32_Deadline) /\ [][C32_UpdateStep]_vars

C32_Witness ==
  /\ HasEscrow
  /\ E.status = "Disputed"
  /\ last = "updateConfig"
  /\ E.dispute[1].timeout = TickLen
  /\ Cfg.disputeTimeout = 2 * TickLen
  /\ now >= E.dispute[1].initiatedAt + TickLen
  /\ now < E.dispute[1].initiatedAt + 2 * TickLen
  /\ ENABLED ClaimExpired("stranger")

C34_Books ==
  HasEscrow =>
    /\ vault = E.amount - E.releasedAmount - E.refundedAmount
    /\ E.status \in Terminal => vault = 0

C34_Credited ==
  (HasEscrow /\ HasEscrow') =>
    /\ vault + bal[E.maker] + bal[E.beneficiary] + bal[Cfg.feeCollector]
         = vault' + bal'[E.maker] + bal'[E.beneficiary] + bal'[Cfg.feeCollector]
    /\ \A h \in Holders \ {E.maker, E.beneficiary, Cfg.feeCollector} :
         bal'[h] = bal[h]

(* C34: before closeEscrow and without deposits from outside, the vault  *)
(* holds exactly totalAmount - releasedAmount - refundedAmount (0 in     *)
(* every terminal status), and whatever leaves the vault is credited to  *)
(* the payer, the current beneficiary or the fee collector, so the vault *)
(* and those three balances together are constant.                       *)
C34_VaultMatchesBooks == [](C34_Books) /\ [][C34_Credited]_vars

C34_Witness ==
  /\ HasEscrow
  /\ last = "cancelEscrow"
  /\ E.status = "Active"
  /\ E.refundedAmount = 30
  /\ E.releasedAmount = 0
  /\ vault = 45

C36_BeneficiaryNotPayer == HasEscrow => E.beneficiary # E.maker

(* The one way in: a sync to a certificate the payer holds. create and   *)
(* transferClaim never record the payer as beneficiary.                  *)
C36_OnlyBySync ==
  [][/\ (~HasEscrow /\ HasEscrow') => escrow'[1].beneficiary # escrow'[1].maker
     /\ (HasEscrow /\ HasEscrow' /\ E.beneficiary # E.maker
           /\ escrow'[1].beneficiary = escrow'[1].maker) =>
          /\ last' = "syncBeneficiary"
          /\ nft[1].holder = E.maker]_vars

(* C37: with a certificate recorded, releaseMilestone, resolveDispute   *)
(* and claimExpired are accepted only while the certificate's holder is *)
(* the recorded beneficiary, and each of them credits the beneficiary's *)
(* payment (what was released less the fee) to that holder; no holder   *)
(* other than the payer, the collector and the certificate's holder is  *)
(* credited. A stale recorded beneficiary is never paid.                *)
C37_Stale ==
  HasEscrow /\ E.receiptMint /\ nft # <<>> /\ nft[1].supply = 1
    /\ nft[1].holder # E.beneficiary

C37_Blocked ==
  C37_Stale =>
    /\ \A c \in Users, i \in MsIndexes : ~ENABLED ReleaseMilestone(c, i)
    /\ \A c \in Users, r \in Resolutions : ~ENABLED ResolveDispute(c, r)
    /\ \A c \in Users : ~ENABLED ClaimExpired(c)

C37_SettlementStep ==
  (StepOf("releaseMilestone") \/ StepOf("resolveDispute") \/ StepOf("claimExpired"))
    /\ E.receiptMint =>
      LET holder == nft[1].holder
          gross == E'.releasedAmount - E.releasedAmount
          refund == E'.refundedAmount - E.refundedAmount
          fee == bal'[Cfg.feeCollector] - bal[Cfg.feeCollector]
      IN /\ nft # <<>> /\ nft[1].supply = 1
         /\ bal'[holder] - bal[holder] =
              (gross - fee) + (IF holder = E.maker THEN refund ELSE 0)
         /\ \A h \in Users \ {holder, E.maker} : bal'[h] = bal[h]

C37_PaysHolder == [](C37_Blocked) /\ [][C37_SettlementStep]_vars

(* A dispute resolved for the payee after the certificate moved to a    *)
(* third party and was synced: the third party holds the whole payment. *)
C37_Witness ==
  /\ HasEscrow
  /\ last = "resolveDispute"
  /\ E.receiptMint
  /\ nft # <<>> /\ nft[1].supply = 1
  /\ nft[1].holder = "stranger"
  /\ E.taker = "taker"
  /\ E.status = "Completed"
  /\ bal["stranger"] = 74
  /\ bal["taker"] = 0

(* C38: for a non-terminal agreement, once now has reached the effective *)
(* deadline it stays reached until the agreement becomes terminal: no    *)
(* step, initiateDispute on an Active agreement past expiresAt included, *)
(* moves the effective deadline back into the future.                    *)
C38_Due == HasEscrow /\ E.status \in {"Active", "Disputed"} /\ now >= EffectiveDeadline

C38_DeadlineStaysReached ==
  [][C38_Due /\ HasEscrow' /\ E'.status \in {"Active", "Disputed"} =>
       /\ now' >= EffectiveDeadline'
       /\ ("EscrowNotExpired" \notin ClaimExpiredErrs)']_vars

(* The one step that moves a reached deadline into the future is an      *)
(* initiateDispute on an Active agreement; the new deadline is the       *)
(* instant of that call plus the dispute timeout.                        *)
C38_OnlyByDispute ==
  [][C38_Due /\ HasEscrow' /\ E'.status \in {"Active", "Disputed"}
       /\ now' < EffectiveDeadline' =>
         /\ last' = "initiateDispute"
         /\ E.status = "Active"
         /\ E'.status = "Disputed"
         /\ EffectiveDeadline' = now + Cfg.disputeTimeout]_vars

(* An agreement disputed after expiresAt, not yet claimable again. *)
C38_Reopened ==
  /\ HasEscrow
  /\ E.status = "Disputed"
  /\ E.dispute[1].initiatedAt >= E.expiresAt
  /\ now < EffectiveDeadline
  /\ "EscrowNotExpired" \in ClaimExpiredErrs

(* C39: a dispute opened after a partial cancelEscrow (refundedAmount > 0 *)
(* with a milestone still Approved) can always be settled: before the     *)
(* dispute deadline the authority's resolveDispute is accepted with every *)
(* valid resolution, from the deadline on claimExpired is accepted, and   *)
(* the settling step distributes exactly totalAmount - releasedAmount -   *)
(* refundedAmount, no more than the vault holds, and ends with            *)
(* releasedAmount + refundedAmount = totalAmount.                         *)
C39_DisputedAfterCancel ==
  /\ HasEscrow /\ HasConfig
  /\ E.status = "Disputed"
  /\ E.refundedAmount > 0
  /\ CountMs(E.milestones, "Approved") > 0

C39_Accepted ==
  C39_DisputedAfterCancel /\ ReceiptSynced =>
    /\ now < DisputeDeadline =>
         \A res \in Resolutions :
           res.makerBps <= BPS_DENOMINATOR => ENABLED ResolveDispute(Cfg.authority, res)
    /\ now >= DisputeDeadline => \A c \in Users : ENABLED ClaimExpired(c)

C39_SettleStep ==
  C39_DisputedAfterCancel /\ (StepOf("resolveDispute") \/ StepOf("claimExpired")) =>
    /\ vault - vault' = Accounted
    /\ vault - vault' <= vault
    /\ E'.releasedAmount + E'.refundedAmount = E'.amount

C39_CanSettle == [](C39_Accepted) /\ [][C39_SettleStep]_vars

(* What holds instead: the amount both settlements try to move is        *)
(* totalAmount - releasedAmount, which exceeds the vault by the amount    *)
(* already refunded, so neither is ever accepted and the agreement stays  *)
(* Disputed.                                                              *)
C39_Shortfall ==
  C39_DisputedAfterCancel =>
    /\ vault = Accounted
    /\ Remaining = vault + E.refundedAmount
    /\ \A res \in Resolutions : "InsufficientFunds" \in ResolveDisputeErrs(Cfg.authority, res)
    /\ now >= DisputeDeadline => "InsufficientFunds" \in ClaimExpiredErrs
    /\ \A c \in Users, res \in Resolutions : ~ENABLED ResolveDispute(c, res)
    /\ \A c \in Users : ~ENABLED ClaimExpired(c)

C39_Reached == C39_DisputedAfterCancel /\ now >= DisputeDeadline

(* C40: whenever the status is Completed, releasedAmount > 0, also when  *)
(* Completed is reached by resolveDispute (TakerWins or Split with any   *)
(* payerBps) with nothing released beforehand.                           *)
C40_CompletedHasRelease ==
  HasEscrow /\ E.status = "Completed" => E.releasedAmount > 0

(* What holds instead: a Completed agreement with nothing released was   *)
(* resolved by a Split that gave the payer everything; every other way   *)
(* into Completed leaves releasedAmount > 0.                             *)
C40_OnlyFullSplit ==
  HasEscrow /\ E.status = "Completed" /\ E.releasedAmount = 0 =>
    /\ E.dispute # <<>>
    /\ E.dispute[1].resolution = "Split"
    /\ E.refundedAmount = E.amount

C40_CompletingStep ==
  [][HasEscrow /\ HasEscrow' /\ E.status # "Completed" /\ E'.status = "Completed" =>
       \/ last' = "releaseMilestone" /\ E'.releasedAmount > 0
       \/ /\ last' = "resolveDispute"
          /\ E'.dispute[1].resolution \in {"TakerWins", "Split"}
          /\ E'.releasedAmount = 0 =>
               /\ E'.dispute[1].resolution = "Split"
               /\ E'.refundedAmount - E.refundedAmount = Remaining]_vars

C40_Reached ==
  /\ HasEscrow
  /\ E.status = "Completed"
  /\ last = "resolveDispute"
  /\ E.dispute[1].resolution = "TakerWins"
  /\ E.releasedAmount = E.amount
=============================================================================
